---------------------------- MODULE Spec2Model ----------------------------
(***************************************************************************)
(* A model of the uler/belalang front end and tree-walking evaluator:      *)
(*   - Evaluator (src/src/evaluator/mod.rs): evaluate, evaluate_statements, *)
(*     eval_statement, eval_expression, eval_expressions;                   *)
(*   - Parser (src/src/parser.rs): parse_program and the statement parsers. *)
(* The evaluator is a recursive tree walk over an AST with a mutable       *)
(* environment; it is modelled by recursive operators that thread the      *)
(* evaluator's state, and the loop of evaluate_statements is the state     *)
(* machine: one step per top-level statement.                              *)
(***************************************************************************)
EXTENDS Integers, Sequences, FiniteSets, TLC

VARIABLES
    input,        \* ghost: the program text that was given (family and parameters)
    program,      \* Evaluator.program.statements / the parser's Program
    env,          \* Evaluator.env
    statements,   \* evaluate(): the statements swapped out of the program
    result,       \* evaluate_statements(): the local `result`
    outcome,      \* what evaluate() returned
    log,          \* ghost: every statement eval_statement was entered with, in order
    pc,           \* position of the evaluator: "new", "loop", "returned", and in a
                  \* second evaluate() on it "again", "returned_again"; "idle"
    lexer,        \* Parser.lexer: the tokens not yet pulled
    curr_token,   \* Parser.curr_token
    peek_token,   \* Parser.peek_token
    ppc,          \* position of the parser: "stmt", "return", "done", "panic", "hang", "idle"
    overflow_checks, \* the build: whether integer arithmetic is compiled with
                  \* overflow checks (on in a debug build, off in a release build)
    lexing        \* the Lexer of lexer.rs when its next_token is called directly:
                  \* position, read_position, ch, the local `position` of
                  \* read_string, the token returned last, and where it stands

vars == <<input, program, env, statements, result, outcome, log, pc,
          lexer, curr_token, peek_token, ppc, overflow_checks, lexing>>

evalVars == <<env, statements, result, outcome, log, pc>>
parserVars == <<lexer, curr_token, peek_token, ppc>>

(***************************************************************************)
(* Bounds of the model.                                                    *)
(***************************************************************************)
\* largest literal written in a generated program text
MaxLit == 3
\* loop iterations and calls one eval_statement may make before the model
\* stops following it (the code itself has no such limit)
MaxSteps == 8
\* the width in bits of Object::Integer in the model (i64 in the code): the
\* arithmetic is two's complement of this width
IntBits == 6

Lits == 0..MaxLit

(***************************************************************************)
(* Object (evaluator/object.rs, used by evaluator/mod.rs)                  *)
(***************************************************************************)
Integer(n) == [t |-> "Integer", int |-> n]
Boolean(b) == [t |-> "Boolean", bool |-> b]
String(s) == [t |-> "String", str |-> s]
Null == [t |-> "Null"]
Function(params, body, fenv) == [t |-> "Function", params |-> params, body |-> body, env |-> fenv]
Builtin(name) == [t |-> "Builtin", name |-> name]

\* Result<Object, EvaluatorError>; Panic is a Rust panic (division by zero,
\* arithmetic overflow in a build with overflow checks),
\* Running is an evaluation the model stopped following (MaxSteps).
Ok(v) == [k |-> "Ok", v |-> v]
Err(e) == [k |-> "Err", e |-> e]
Panic == [k |-> "Panic"]
Running == [k |-> "Running"]

\* EvaluatorError
PrefixOperator(operator, right) == [err |-> "PrefixOperator", operator |-> operator, right |-> right]
UnknownInfixOperator(left, operator, right) ==
    [err |-> "UnknownInfixOperator", left |-> left, operator |-> operator, right |-> right]
UnknownVariable(name) == [err |-> "UnknownVariable", name |-> name]
NotAFunction == [err |-> "NotAFunction"]
OverwriteBuiltin(name) == [err |-> "OverwriteBuiltin", name |-> name]
VariableRedeclaration(name) == [err |-> "VariableRedeclaration", name |-> name]
ReturningValue(value) == [err |-> "ReturningValue", value |-> value]

IsOk(r) == r.k = "Ok"
IsErr(r, kind) == r.k = "Err" /\ r.e.err = kind

(***************************************************************************)
(* Environment (evaluator/environment.rs): a store and an optional outer   *)
(* environment; <<>> is None, <<e>> is Some(e).                            *)
(***************************************************************************)
EnvDefault == [store |-> <<>>, outer |-> <<>>]

EnvHasHere(e, name) == name \in DOMAIN e.store

EnvSet(e, name, value) == [e EXCEPT !.store = (name :> value) @@ e.store]

EnvCapture(e) == [store |-> <<>>, outer |-> <<e>>]

RECURSIVE EnvGet(_, _)
EnvGet(e, name) ==
    IF name \in DOMAIN e.store THEN <<e.store[name]>>
    ELSE IF Len(e.outer) = 0 THEN <<>>
    ELSE EnvGet(e.outer[1], name)

(***************************************************************************)
(* Builtins (evaluator/builtins.rs)                                        *)
(***************************************************************************)
BuiltinNames == {"print"}

BuiltinsHasFn(name) == name \in BuiltinNames

BuiltinsCall(name, args) == Null


(***************************************************************************)
(* AST (ast.rs, as eval_expression and eval_statement match on it).        *)
(* A block is the sequence of its statements; an Option is <<>> or <<x>>.  *)
(***************************************************************************)
IntegerLiteral(n) == [e |-> "IntegerLiteral", value |-> n]
BooleanExpression(b) == [e |-> "BooleanExpression", bvalue |-> b]
StringLiteral(s) == [e |-> "StringLiteral", svalue |-> s]
PrefixExpression(operator, right) == [e |-> "PrefixExpression", operator |-> operator, right |-> right]
InfixExpression(left, operator, right) ==
    [e |-> "InfixExpression", left |-> left, operator |-> operator, right |-> right]
IfExpression(condition, consequence, alternative) ==
    [e |-> "IfExpression", condition |-> condition, consequence |-> consequence,
     alternative |-> alternative]
CallExpression(function, args) == [e |-> "CallExpression", function |-> function, args |-> args]
FunctionLiteral(params, body) == [e |-> "FunctionLiteral", params |-> params, body |-> body]
Identifier(name) == [e |-> "Identifier", name |-> name]

ExpressionStatement(expression) == [s |-> "ExpressionStatement", expression |-> expression]
BlockStatement(stmts) == [s |-> "BlockStatement", statements |-> stmts]
ReturnStatement(value) == [s |-> "ReturnStatement", return_value |-> value]
Var(token, name, value) == [s |-> "Var", token |-> token, name |-> name, value |-> value]
\* ast/statements/let_statement.rs:4-8
LetStatement(name, value) == [s |-> "LetStatement", name |-> name, value |-> value]
WhileStatement(condition, block) == [s |-> "WhileStatement", condition |-> condition, block |-> block]

(***************************************************************************)
(* Integer arithmetic of Rust's i64, IntBits wide: `/` truncates toward     *)
(* zero, `%` takes the sign of the dividend, a zero divisor panics, and so *)
(* does IntMin / -1 and IntMin % -1.  A result of +, -, * or unary - that  *)
(* lies outside IntMin .. IntMax panics in a build with overflow checks    *)
(* and wraps around in a build without.                                    *)
(***************************************************************************)
IntMin == -(2 ^ (IntBits - 1))
IntMax == (2 ^ (IntBits - 1)) - 1

\* two's complement wrap-around of a mathematical result
Wrap(n) == ((n - IntMin) % (2 ^ IntBits)) + IntMin

\* the native `l + r`, `l - r`, `l * r` and `-value` of mod.rs:75, 88-90
Native(n) ==
    IF n \in IntMin..IntMax THEN Ok(Integer(n))
    ELSE IF overflow_checks THEN Panic
    ELSE Ok(Integer(Wrap(n)))

\* the native `l / r` and `l % r` of mod.rs:91-92, q being the result
NativeDiv(l, r, q) ==
    IF r = 0 \/ (l = IntMin /\ r = -1) THEN Panic ELSE Ok(Integer(q))

Abs(n) == IF n < 0 THEN -n ELSE n

TruncDiv(l, r) ==
    IF (l < 0) = (r < 0) THEN Abs(l) \div Abs(r) ELSE -(Abs(l) \div Abs(r))

TruncRem(l, r) == l - TruncDiv(l, r) * r

\* mod.rs:86-101, the (Integer, Integer) arm
InfixInteger(operator, left, right) ==
    LET l == left.int
        r == right.int
    IN  CASE operator = "Plus" -> Native(l + r)
          [] operator = "Minus" -> Native(l - r)
          [] operator = "Asterisk" -> Native(l * r)
          [] operator = "Slash" ->
               NativeDiv(l, r, IF r = 0 THEN 0 ELSE TruncDiv(l, r))
          [] operator = "Percent" ->
               NativeDiv(l, r, IF r = 0 THEN 0 ELSE TruncRem(l, r))
          [] operator = "LT" -> Ok(Boolean(l < r))
          [] operator = "GT" -> Ok(Boolean(l > r))
          [] operator = "Eq" -> Ok(Boolean(l = r))
          [] operator = "NotEq" -> Ok(Boolean(l # r))
          [] OTHER -> Err(UnknownInfixOperator(left, operator, right))

\* mod.rs:102-109, the (String, String) arm: format!("{} {}", l, r)
InfixString(operator, left, right) ==
    CASE operator = "Plus" -> Ok(String(left.str \o " " \o right.str))
      [] OTHER -> Err(UnknownInfixOperator(left, operator, right))

\* #[derive(PartialEq)] of Object, on the variants that carry no environment
ObjectEq(left, right) ==
    /\ left.t = right.t
    /\ CASE left.t = "Integer" -> left.int = right.int
         [] left.t = "Boolean" -> left.bool = right.bool
         [] left.t = "String" -> left.str = right.str
         [] left.t = "Builtin" -> left.name = right.name
         [] left.t = "Null" -> TRUE
         [] OTHER -> left = right

\* a bug: the error carries the operands the wrong way round
InfixOtherSwapped(operator, left, right) ==
    CASE operator = "Eq" -> Ok(Boolean(ObjectEq(left, right)))
      [] operator = "NotEq" -> Ok(Boolean(~ObjectEq(left, right)))
      [] OTHER -> Err(UnknownInfixOperator(right, operator, left))

\* mod.rs:110-118, the (_, _) arm
InfixOther(operator, left, right) ==
    CASE operator = "Eq" -> Ok(Boolean(ObjectEq(left, right)))
      [] operator = "NotEq" -> Ok(Boolean(~ObjectEq(left, right)))
      [] OTHER -> Err(UnknownInfixOperator(left, operator, right))

\* mod.rs:85-119
EvalInfix(operator, left, right) ==
    CASE left.t = "Integer" /\ right.t = "Integer" -> InfixInteger(operator, left, right)
      [] left.t = "String" /\ right.t = "String" -> InfixString(operator, left, right)
      [] OTHER -> InfixOther(operator, left, right)

\* mod.rs:69-79
EvalPrefix(operator, right) ==
    CASE operator = "Bang" /\ right.t = "Boolean" -> Ok(Boolean(~right.bool))
      [] operator = "Minus" /\ right.t = "Integer" -> Native(-right.int)
      [] OTHER -> Err(PrefixOperator(operator, right))

\* a bug: truthiness (everything but false and Null selects the consequence)
IfTruthy(condition) ==
    ~(condition.t = "Null" \/ (condition.t = "Boolean" /\ ~condition.bool))

\* mod.rs:124, `if let Object::Boolean(true) = condition`
IfTakesConsequence(condition) == condition.t = "Boolean" /\ condition.bool

\* a bug: the loop goes on for every condition but false and Null
WhileTruthy(condition) ==
    ~(condition.t = "Null" \/ (condition.t = "Boolean" /\ ~condition.bool))

\* mod.rs:232, `while let Object::Boolean(true) = ...`
WhileContinues(condition) == condition.t = "Boolean" /\ condition.bool

\* a bug: the call hands on the result of the body as it is
CallResultRaw(r) == r

\* mod.rs:151-155, what a call makes of the result of the body
CallResult(r) ==
    IF r.k = "Err" /\ r.e.err = "ReturningValue" THEN Ok(r.e.value) ELSE r

\* a bug: the function literal captures nothing
FunctionLiteralEnvFresh(e) == EnvDefault

\* a bug: the function literal takes the environment itself, not a child scope
FunctionLiteralEnvShared(e) == e

\* mod.rs:164, the environment a function literal captures
FunctionLiteralEnv(e) == EnvCapture(e)

\* mod.rs:144-146, params.iter().zip(args): the shorter of the two decides
RECURSIVE BindParams(_, _, _)
BindParams(e, params, args) ==
    IF params = <<>> \/ args = <<>> THEN e
    ELSE BindParams(EnvSet(e, Head(params), Head(args)), Tail(params), Tail(args))

(***************************************************************************)
(* Display of errors (error.rs), tokens (token.rs) and objects (object.rs) *)
(***************************************************************************)
\* core/src/token.rs:148-216 for the operator tokens
TokenDisplay(operator) ==
    CASE operator = "Plus" -> "+"
      [] operator = "Minus" -> "-"
      [] operator = "Asterisk" -> "*"
      [] operator = "Slash" -> "/"
      [] operator = "Percent" -> "%"
      [] operator = "LT" -> "<"
      [] operator = "GT" -> ">"
      [] operator = "Eq" -> "=="
      [] operator = "NotEq" -> "!="
      [] operator = "Bang" -> "!"
      [] operator = "Le" -> "<="
      [] operator = "Ge" -> ">="

\* object.rs, as the messages of mod.rs:338-359 show it
ObjectDisplay(object) ==
    CASE object.t = "Integer" -> ToString(object.int)
      [] object.t = "Boolean" -> IF object.bool THEN "true" ELSE "false"
      [] object.t = "String" -> object.str
      [] object.t = "Null" -> "null"
      [] object.t = "Function" -> "fn"
      [] object.t = "Builtin" -> object.name

\* error.rs:33, #[error("unknown operator: {0} {1} {2}")]
UnknownInfixOperatorDisplay(error) ==
    "unknown operator: " \o ObjectDisplay(error.left) \o " " \o TokenDisplay(error.operator)
        \o " " \o ObjectDisplay(error.right)

(***************************************************************************)
(* The tree walk.  An evaluator state ev is [env, log, fuel]: the          *)
(* Evaluator's env, the ghost log, and the loop iterations and calls the   *)
(* model still follows.  Every operator returns [r, ev]: the Result and    *)
(* the state the evaluator is left in (`?` returns early and keeps what    *)
(* was done to self.env so far).                                           *)
(***************************************************************************)
Ret(r, ev) == [r |-> r, ev |-> ev]

RECURSIVE EvalExpression(_, _)
RECURSIVE EvalExpressions(_, _, _)
RECURSIVE EvalStatement(_, _)
RECURSIVE EvalBlock(_, _, _)
RECURSIVE EvalBlockContinues(_, _, _)
RECURSIVE EvalWhile(_, _)

\* mod.rs:134-160
EvalCall(expression, ev) ==
    LET f == EvalExpression(expression.function, ev)
    IN  IF ~IsOk(f.r) THEN f
        ELSE
        LET a == EvalExpressions(expression.args, <<>>, f.ev)
        IN  IF ~IsOk(a.r) THEN a
            ELSE
            LET function == f.r.v
                args == a.r.v
            IN  CASE function.t = "Function" ->
                       IF a.ev.fuel = 0 THEN Ret(Running, a.ev)
                       ELSE
                       LET fenv == BindParams(function.env, function.params, args)
                           \* Evaluator::default() with ev.env = env
                           b == EvalStatement(BlockStatement(function.body),
                                              [env |-> fenv, log |-> a.ev.log,
                                               fuel |-> a.ev.fuel - 1])
                       IN  Ret(CallResult(b.r),
                               [env |-> a.ev.env, log |-> b.ev.log, fuel |-> b.ev.fuel])
                  [] function.t = "Builtin" -> Ret(Ok(BuiltinsCall(function.name, args)), a.ev)
                  [] OTHER -> Ret(Err(NotAFunction), a.ev)

\* mod.rs:121-133
EvalIf(expression, ev) ==
    LET c == EvalExpression(expression.condition, ev)
    IN  IF ~IsOk(c.r) THEN c
        ELSE IF IfTakesConsequence(c.r.v)
             THEN EvalStatement(BlockStatement(expression.consequence), c.ev)
        ELSE IF Len(expression.alternative) > 0
             THEN EvalStatement(BlockStatement(expression.alternative[1]), c.ev)
        ELSE Ret(Ok(Null), c.ev)

\* a bug: the builtin registry is asked before the environment
EvalIdentifierBuiltinFirst(expression, ev) ==
    IF BuiltinsHasFn(expression.name) THEN Ret(Ok(Builtin(expression.name)), ev)
    ELSE
    LET found == EnvGet(ev.env, expression.name)
    IN  IF Len(found) > 0 THEN Ret(Ok(found[1]), ev)
        ELSE Ret(Err(UnknownVariable(expression.name)), ev)

\* mod.rs:166-172
EvalIdentifier(expression, ev) ==
    LET found == EnvGet(ev.env, expression.name)
    IN  IF Len(found) > 0 THEN Ret(Ok(found[1]), ev)
        ELSE IF BuiltinsHasFn(expression.name) THEN Ret(Ok(Builtin(expression.name)), ev)
        ELSE Ret(Err(UnknownVariable(expression.name)), ev)

\* mod.rs:61-174
EvalExpression(expression, ev) ==
    CASE expression.e = "IntegerLiteral" -> Ret(Ok(Integer(expression.value)), ev)
      [] expression.e = "BooleanExpression" -> Ret(Ok(Boolean(expression.bvalue)), ev)
      [] expression.e = "StringLiteral" -> Ret(Ok(String(expression.svalue)), ev)
      [] expression.e = "PrefixExpression" ->
            LET right == EvalExpression(expression.right, ev)
            IN  IF ~IsOk(right.r) THEN right
                ELSE Ret(EvalPrefix(expression.operator, right.r.v), right.ev)
      [] expression.e = "InfixExpression" ->
            LET left == EvalExpression(expression.left, ev)
            IN  IF ~IsOk(left.r) THEN left
                ELSE
                LET right == EvalExpression(expression.right, left.ev)
                IN  IF ~IsOk(right.r) THEN right
                    ELSE Ret(EvalInfix(expression.operator, left.r.v, right.r.v), right.ev)
      [] expression.e = "IfExpression" -> EvalIf(expression, ev)
      [] expression.e = "CallExpression" -> EvalCall(expression, ev)
      [] expression.e = "FunctionLiteral" ->
            Ret(Ok(Function(expression.params, expression.body, FunctionLiteralEnv(ev.env))), ev)
      [] expression.e = "Identifier" -> EvalIdentifier(expression, ev)

\* mod.rs:176-184; done is the Vec built so far
EvalExpressions(exprs, done, ev) ==
    IF exprs = <<>> THEN Ret(Ok(done), ev)
    ELSE
    LET x == EvalExpression(Head(exprs), ev)
    IN  IF ~IsOk(x.r) THEN x
        ELSE EvalExpressions(Tail(exprs), Append(done, x.r.v), x.ev)

\* a bug: the block goes on after a statement that failed
EvalBlockContinues(stmts, last, ev) ==
    IF stmts = <<>> THEN Ret(Ok(last), ev)
    ELSE
    LET x == EvalStatement(Head(stmts), ev)
    IN  EvalBlockContinues(Tail(stmts), IF IsOk(x.r) THEN x.r.v ELSE last, x.ev)

\* mod.rs:189-197; last is the local `result`
EvalBlock(stmts, last, ev) ==
    IF stmts = <<>> THEN Ret(Ok(last), ev)
    ELSE
    LET x == EvalStatement(Head(stmts), ev)
    IN  IF ~IsOk(x.r) THEN x
        ELSE EvalBlock(Tail(stmts), x.r.v, x.ev)

\* mod.rs:231-237
EvalWhile(stmt, ev) ==
    LET c == EvalExpression(stmt.condition, ev)
    IN  IF ~IsOk(c.r) THEN c
        ELSE IF ~WhileContinues(c.r.v) THEN Ret(Ok(Null), c.ev)
        ELSE IF c.ev.fuel = 0 THEN Ret(Running, c.ev)
        ELSE
        LET b == EvalStatement(BlockStatement(stmt.block),
                               [c.ev EXCEPT !.fuel = c.ev.fuel - 1])
        IN  IF ~IsOk(b.r) THEN b
            ELSE EvalWhile(stmt, b.ev)

\* a bug: `:=` without the has_here check
EvalDeclareUnchecked(var, ev) ==
    IF BuiltinsHasFn(var.name) THEN Ret(Err(OverwriteBuiltin(var.name)), ev)
    ELSE
    LET value == EvalExpression(var.value, ev)
    IN  IF ~IsOk(value.r) THEN value
        ELSE Ret(Ok(value.r.v), [value.ev EXCEPT !.env = EnvSet(value.ev.env, var.name, value.r.v)])

\* mod.rs:202-217, `:=`
EvalDeclare(var, ev) ==
    IF EnvHasHere(ev.env, var.name) THEN Ret(Err(VariableRedeclaration(var.name)), ev)
    ELSE IF BuiltinsHasFn(var.name) THEN Ret(Err(OverwriteBuiltin(var.name)), ev)
    ELSE
    LET value == EvalExpression(var.value, ev)
    IN  IF ~IsOk(value.r) THEN value
        ELSE Ret(Ok(value.r.v), [value.ev EXCEPT !.env = EnvSet(value.ev.env, var.name, value.r.v)])

\* a bug: `=` evaluates the value and binds nothing
EvalAssignDropped(var, ev) ==
    IF BuiltinsHasFn(var.name) THEN Ret(Err(OverwriteBuiltin(var.name)), ev)
    ELSE
    LET value == EvalExpression(var.value, ev)
    IN  IF ~IsOk(value.r) THEN value
        ELSE Ret(Ok(value.r.v), value.ev)

\* mod.rs:218-228, `=`
EvalAssign(var, ev) ==
    IF BuiltinsHasFn(var.name) THEN Ret(Err(OverwriteBuiltin(var.name)), ev)
    ELSE
    LET value == EvalExpression(var.value, ev)
    IN  IF ~IsOk(value.r) THEN value
        ELSE Ret(Ok(value.r.v), [value.ev EXCEPT !.env = EnvSet(value.ev.env, var.name, value.r.v)])

\* mod.rs:198-201
EvalReturn(stmt, ev) ==
    LET value == EvalExpression(stmt.return_value, ev)
    IN  IF ~IsOk(value.r) THEN value
        ELSE Ret(Err(ReturningValue(value.r.v)), value.ev)

\* mod.rs:186-239; the ghost log takes the statement on entry
EvalStatement(statement, ev0) ==
    LET ev == [ev0 EXCEPT !.log = Append(ev0.log, statement)]
    IN  CASE statement.s = "ExpressionStatement" -> EvalExpression(statement.expression, ev)
          [] statement.s = "BlockStatement" -> EvalBlock(statement.statements, Null, ev)
          [] statement.s = "ReturnStatement" -> EvalReturn(statement, ev)
          [] statement.s = "Var" ->
                CASE statement.token = "Walrus" -> EvalDeclare(statement, ev)
                  [] statement.token = "Assign" -> EvalAssign(statement, ev)
                  [] OTHER -> Ret(Err(NotAFunction), ev)
          [] statement.s = "WhileStatement" -> EvalWhile(statement, ev)

(***************************************************************************)
(* The program texts given to the evaluator, as the ASTs they stand for.   *)
(* An input names a family of texts and its parameters.                    *)
(***************************************************************************)
Lit(n) == IntegerLiteral(n)
ExprStmt(x) == ExpressionStatement(x)
True == BooleanExpression(TRUE)
False == BooleanExpression(FALSE)

\* a statement no program text evaluates unless control reaches it
Unreached == ExprStmt(StringLiteral("unreached"))

\* f := fn(x) { fn(y) { x + y } };
DeclareAdder ==
    Var("Walrus", "f",
        FunctionLiteral(<<"x">>,
            <<ExprStmt(FunctionLiteral(<<"y">>,
                <<ExprStmt(InfixExpression(Identifier("x"), "Plus", Identifier("y")))>>))>>))

\* f := fn(x) { fn(y) { x + y } }; g := f(a); g(b);
\* with again: ...; g := f(a); h := f(c); g(b);
ClosureProgram(a, b, c, again) ==
    <<DeclareAdder, Var("Walrus", "g", CallExpression(Identifier("f"), <<Lit(a)>>))>>
    \o (IF again THEN <<Var("Walrus", "h", CallExpression(Identifier("f"), <<Lit(c)>>))>>
        ELSE <<>>)
    \o <<ExprStmt(CallExpression(Identifier("g"), <<Lit(b)>>))>>

\* a := v; a := w;
RedeclareProgram(v, w) == <<Var("Walrus", "a", Lit(v)), Var("Walrus", "a", Lit(w))>>

\* a := v; a = w; a;
ReassignProgram(v, w) ==
    <<Var("Walrus", "a", Lit(v)), Var("Assign", "a", Lit(w)), ExprStmt(Identifier("a"))>>

\* i := 0; while (i < n) { i = i + 1; } i;
CountProgram(n) ==
    <<Var("Walrus", "i", Lit(0)),
      WhileStatement(InfixExpression(Identifier("i"), "LT", Lit(n)),
          <<Var("Assign", "i", InfixExpression(Identifier("i"), "Plus", Lit(1)))>>),
      ExprStmt(Identifier("i"))>>

\* the operand expressions of the infix and condition texts, one per Object
\* variant: 0 .. MaxLit, -2, true, false, "a", "b", if (false) { 1 } (Null),
\* fn() { } and print; then the two ends of the Integer range and -1: the
\* largest literal, and -<largest> - 1 (the smallest Integer has no literal)
Operands ==
    [i \in 1..(MaxLit + 1) |-> Lit(i - 1)]
    \o <<PrefixExpression("Minus", Lit(2)), True, False,
         StringLiteral("a"), StringLiteral("b"),
         IfExpression(False, <<ExprStmt(Lit(1))>>, <<>>),
         FunctionLiteral(<<>>, <<>>), Identifier("print"),
         Lit(IntMax),
         InfixExpression(PrefixExpression("Minus", Lit(IntMax)), "Minus", Lit(1)),
         PrefixExpression("Minus", Lit(1))>>

\* the infix operators: those the lexer produces (lexer.rs:30-61), and <= and
\* >=, which are tokens (Token::Le and Token::Ge of core/src/token.rs) that
\* this lexer does not produce: it reads "<=" as LT, Assign
Operators ==
    <<"Plus", "Minus", "Asterisk", "Slash", "Percent", "LT", "GT", "Eq", "NotEq", "Le", "Ge">>

\* l op r;
InfixProgram(l, op, r) == <<ExprStmt(InfixExpression(Operands[l], Operators[op], Operands[r]))>>

\* if (c) { 1 }            and with else: if (c) { 1 } else { 2 }
IfProgram(c, else) ==
    <<ExprStmt(IfExpression(Operands[c], <<ExprStmt(Lit(1))>>,
                            IF else THEN << <<ExprStmt(Lit(2))>> >> ELSE <<>>))>>

\* c := true; n := 0; while (c) { n = n + 1; c = <last>; 7 }
\* the condition is true once and then the value of <last>
WhileProgram(last) ==
    <<Var("Walrus", "c", True), Var("Walrus", "n", Lit(0)),
      WhileStatement(Identifier("c"),
          <<Var("Assign", "n", InfixExpression(Identifier("n"), "Plus", Lit(1))),
            Var("Assign", "c", Operands[last]),
            ExprStmt(Lit(7))>>)>>

\* `return v;` under depth levels of nesting, alternately if (true) { .. } and
\* while (true) { .. }, each level followed by a statement that must not run
RECURSIVE Nested(_, _)
Nested(depth, v) ==
    IF depth = 0 THEN <<ReturnStatement(Lit(v)), Unreached>>
    ELSE IF depth % 2 = 1
         THEN <<ExprStmt(IfExpression(True, Nested(depth - 1, v), <<>>)), Unreached>>
         ELSE <<WhileStatement(True, Nested(depth - 1, v)), Unreached>>

\* r := fn() { <return v nested depth deep> }(); r;
ReturnProgram(depth, v) ==
    <<Var("Walrus", "r", CallExpression(FunctionLiteral(<<>>, Nested(depth, v)), <<>>)),
      ExprStmt(Identifier("r"))>>

\* the values returned at the top level in mod.rs:317-324
ReturnedLits == {1, 10}

\* if (c) { return v; 9; } else { return w; }      (mod.rs:317-324)
TopReturnProgram(c, v, w) ==
    <<ExprStmt(IfExpression(BooleanExpression(c),
                            <<ReturnStatement(Lit(v)), ExprStmt(Lit(9))>>,
                            << <<ReturnStatement(Lit(w))>> >>))>>

\* deepest nesting of a generated return
MaxDepth == 3

\* the identifier texts:
\*   "bound"     a := v; a;
\*   "outer"     a := v; fn() { a }();
\*   "builtin"   print;
\*   "unknown"   b;
\*   "param"     fn(print) { print }(v);
LookupKinds == {"bound", "outer", "builtin", "unknown", "param"}

LookupProgram(kind, v) ==
    CASE kind = "bound" -> <<Var("Walrus", "a", Lit(v)), ExprStmt(Identifier("a"))>>
      [] kind = "outer" ->
            <<Var("Walrus", "a", Lit(v)),
              ExprStmt(CallExpression(FunctionLiteral(<<>>, <<ExprStmt(Identifier("a"))>>), <<>>))>>
      [] kind = "builtin" -> <<ExprStmt(Identifier("print"))>>
      [] kind = "unknown" -> <<ExprStmt(Identifier("b"))>>
      [] kind = "param" ->
            <<ExprStmt(CallExpression(
                  FunctionLiteral(<<"print">>, <<ExprStmt(Identifier("print"))>>), <<Lit(v)>>))>>

\* f := fn(x) { a := v; a + x }; f(w); f(w); <probe>
\* with outer, a := "outer"; comes first; the probe is f(w); or a; or x;
ScopeProbes == {"call", "a", "x"}

ScopeProgram(outer, probe, v, w) ==
    LET call == ExprStmt(CallExpression(Identifier("f"), <<Lit(w)>>))
    IN  (IF outer THEN <<Var("Walrus", "a", StringLiteral("outer"))>> ELSE <<>>)
        \o <<Var("Walrus", "f",
                 FunctionLiteral(<<"x">>,
                     <<Var("Walrus", "a", Lit(v)),
                       ExprStmt(InfixExpression(Identifier("a"), "Plus", Identifier("x")))>>)),
             call, call,
             CASE probe = "call" -> call
               [] probe = "a" -> ExprStmt(Identifier("a"))
               [] probe = "x" -> ExprStmt(Identifier("x"))>>

\* 4; a := v; true - true; b := w; 5          ("4; true - true; 5", mod.rs:352-355)
\* and in a block: if (true) { 4; a := v; true - true; b := w; 5 } c := w;
AbortSequence(v, w) ==
    <<ExprStmt(Lit(4)), Var("Walrus", "a", Lit(v)),
      ExprStmt(InfixExpression(True, "Minus", True)),
      Var("Walrus", "b", Lit(w)), ExprStmt(Lit(5))>>

AbortProgram(block, v, w) ==
    IF block
    THEN <<ExprStmt(IfExpression(True, AbortSequence(v, w), <<>>)), Var("Walrus", "c", Lit(w))>>
    ELSE AbortSequence(v, w)

\* longest chain of prefix operators in a generated text
MaxChain == 3

PrefixOperators == {"Bang", "Minus"}

\* !!!true, ---2, -true, !5 ...: k times the operator, then the operand
\* ("!!true", "--123", "---123", mod.rs:252-254, 269-272)
RECURSIVE PrefixChain(_, _, _)
PrefixChain(operator, k, operand) ==
    IF k = 0 THEN operand
    ELSE PrefixExpression(operator, PrefixChain(operator, k - 1, operand))

PrefixProgram(operator, k, a) == <<ExprStmt(PrefixChain(operator, k, Operands[a]))>>

\* the texts that try to bind the builtin name:
\*   "declare"     a := v; print := v; print;
\*   "assign"      a := v; print = v; print;
\*   "in_call"     fn() { print := v; }(); print;
\*   "param"       fn(print) { print }(v);
\*   "param_then"  f := fn(print) { print }; f(v); print;
ShadowKinds == {"declare", "assign", "in_call", "param", "param_then"}

ShadowProgram(kind, v) ==
    LET shadowed == FunctionLiteral(<<"print">>, <<ExprStmt(Identifier("print"))>>)
    IN  CASE kind = "declare" ->
                <<Var("Walrus", "a", Lit(v)), Var("Walrus", "print", Lit(v)),
                  ExprStmt(Identifier("print"))>>
          [] kind = "assign" ->
                <<Var("Walrus", "a", Lit(v)), Var("Assign", "print", Lit(v)),
                  ExprStmt(Identifier("print"))>>
          [] kind = "in_call" ->
                <<ExprStmt(CallExpression(
                      FunctionLiteral(<<>>, <<Var("Walrus", "print", Lit(v))>>), <<>>)),
                  ExprStmt(Identifier("print"))>>
          [] kind = "param" -> <<ExprStmt(CallExpression(shadowed, <<Lit(v)>>))>>
          [] kind = "param_then" ->
                <<Var("Walrus", "f", shadowed),
                  ExprStmt(CallExpression(Identifier("f"), <<Lit(v)>>)),
                  ExprStmt(Identifier("print"))>>

Inputs ==
    [family : {"closure"}, a : Lits, b : Lits, c : Lits, again : BOOLEAN]
    \cup [family : {"redeclare", "reassign"}, a : Lits, b : Lits]
    \cup [family : {"count"}, a : Lits]
    \cup [family : {"infix"}, a : DOMAIN Operands, op : DOMAIN Operators, b : DOMAIN Operands]
    \cup [family : {"if"}, a : DOMAIN Operands, again : BOOLEAN]
    \cup [family : {"while"}, a : DOMAIN Operands]
    \cup [family : {"return"}, a : 0..MaxDepth, b : Lits]
    \cup [family : {"topreturn"}, again : BOOLEAN, a : ReturnedLits, b : ReturnedLits]
    \cup [family : {"lookup"}, kind : LookupKinds, a : Lits]
    \cup [family : {"scope"}, again : BOOLEAN, kind : ScopeProbes, a : Lits, b : Lits]
    \cup [family : {"abort"}, again : BOOLEAN, a : Lits, b : Lits]
    \cup [family : {"shadow"}, kind : ShadowKinds, a : Lits]
    \cup [family : {"prefix"}, operator : PrefixOperators, k : 1..MaxChain, a : DOMAIN Operands]

ProgramOf(in) ==
    CASE in.family = "closure" -> ClosureProgram(in.a, in.b, in.c, in.again)
      [] in.family = "redeclare" -> RedeclareProgram(in.a, in.b)
      [] in.family = "reassign" -> ReassignProgram(in.a, in.b)
      [] in.family = "count" -> CountProgram(in.a)
      [] in.family = "infix" -> InfixProgram(in.a, in.op, in.b)
      [] in.family = "if" -> IfProgram(in.a, in.again)
      [] in.family = "while" -> WhileProgram(in.a)
      [] in.family = "return" -> ReturnProgram(in.a, in.b)
      [] in.family = "topreturn" -> TopReturnProgram(in.again, in.a, in.b)
      [] in.family = "lookup" -> LookupProgram(in.kind, in.a)
      [] in.family = "scope" -> ScopeProgram(in.again, in.kind, in.a, in.b)
      [] in.family = "abort" -> AbortProgram(in.again, in.a, in.b)
      [] in.family = "shadow" -> ShadowProgram(in.kind, in.a)
      [] in.family = "prefix" -> PrefixProgram(in.operator, in.k, in.a)

(***************************************************************************)
(* The evaluator as a state machine.                                       *)
(***************************************************************************)
NoToken == [tok |-> "None"]

\* no Lexer is driven directly
LexerIdle == [pc |-> "none"]

\* Evaluator::new(program, builtins), mod.rs:33-39
Init ==
    /\ input \in Inputs
    /\ overflow_checks \in BOOLEAN
    /\ program = ProgramOf(input)
    /\ env = EnvDefault
    /\ statements = <<>>
    /\ result = Null
    /\ outcome = Running
    /\ log = <<>>
    /\ pc = "new"
    /\ lexer = <<>>
    /\ curr_token = NoToken
    /\ peek_token = NoToken
    /\ ppc = "idle"
    /\ lexing = LexerIdle

\* a bug: evaluate() copies the statements and leaves them in the program
SwapLeavesProgram(stmts) == stmts

\* mod.rs:42-43, what std::mem::swap leaves in self.program.statements: the
\* empty Vec::with_capacity
SwapLeaves(stmts) == <<>>

\* where evaluate_statements is in the first and in the second evaluate()
InLoop == pc \in {"loop", "again"}
Returned == IF pc = "loop" THEN "returned" ELSE "returned_again"

\* evaluate(), mod.rs:41-46, up to the loop of evaluate_statements (line 52);
\* the method takes &mut self, so that it may be called again once it has
\* returned a value or an error
Evaluate ==
    /\ \/ pc = "new"
       \/ pc = "returned" /\ outcome.k \in {"Ok", "Err"}
    /\ statements' = program
    /\ program' = SwapLeaves(program)
    /\ result' = Null
    /\ pc' = IF pc = "new" THEN "loop" ELSE "again"
    /\ UNCHANGED <<overflow_checks, input, env, outcome, log>>
    /\ UNCHANGED parserVars
    /\ UNCHANGED lexing

\* the eval_statement call of one iteration of evaluate_statements
Step == EvalStatement(Head(statements), [env |-> env, log |-> log, fuel |-> MaxSteps])

\* mod.rs:54-56, an iteration whose eval_statement is Ok
EvaluateStatementOk ==
    /\ InLoop
    /\ statements # <<>>
    /\ IsOk(Step.r)
    /\ result' = Step.r.v
    /\ env' = Step.ev.env
    /\ log' = Step.ev.log
    /\ statements' = Tail(statements)
    /\ UNCHANGED <<overflow_checks, input, program, outcome, pc>>
    /\ UNCHANGED parserVars
    /\ UNCHANGED lexing

\* mod.rs:55, `?`: an iteration whose eval_statement is not Ok returns it
EvaluateStatementErr ==
    /\ InLoop
    /\ statements # <<>>
    /\ ~IsOk(Step.r)
    /\ outcome' = Step.r
    /\ env' = Step.ev.env
    /\ log' = Step.ev.log
    /\ pc' = Returned
    /\ UNCHANGED <<overflow_checks, input, program, statements, result>>
    /\ UNCHANGED parserVars
    /\ UNCHANGED lexing

\* mod.rs:58, Ok(result)
EvaluateReturn ==
    /\ InLoop
    /\ statements = <<>>
    /\ outcome' = Ok(result)
    /\ pc' = Returned
    /\ UNCHANGED <<overflow_checks, input, program, env, statements, result, log>>
    /\ UNCHANGED parserVars
    /\ UNCHANGED lexing

Next ==
    \/ Evaluate
    \/ EvaluateStatementOk
    \/ EvaluateStatementErr
    \/ EvaluateReturn

Spec == Init /\ [][Next]_vars

(***************************************************************************)
(* Parser (src/src/parser.rs).  The lexer is the sequence of the tokens    *)
(* it has not handed out yet; after the last one it hands out EOF, again   *)
(* and again.  A parser state p is [lexer, curr_token, peek_token].        *)
(***************************************************************************)
Token(kind) == [tok |-> kind]
IntToken(digits) == [tok |-> "Int", digits |-> digits]
IdentToken(name) == [tok |-> "Ident", name |-> name]
EOF == Token("EOF")

\* parser.rs:6-15, the levels in declaration order (derive(PartialOrd))
Precedence ==
    [Lowest |-> 0, Equals |-> 1, LessGreater |-> 2, Sum |-> 3, Product |-> 4,
     Prefix |-> 5, Call |-> 6]

\* the text of an Int token to its value, digit by digit (str::parse::<i64>)
RECURSIVE ParseInteger(_, _)
ParseInteger(digits, acc) ==
    IF digits = <<>> THEN acc
    ELSE ParseInteger(Tail(digits), acc * 10 + Head(digits))

\* parser.rs:39-46
NextToken(p) ==
    [lexer |-> IF p.lexer = <<>> THEN <<>> ELSE Tail(p.lexer),
     curr_token |-> IF p.peek_token.tok # "None" THEN p.peek_token ELSE p.curr_token,
     peek_token |-> IF p.lexer = <<>> THEN EOF ELSE Head(p.lexer)]

\* parser.rs:25-37
ParserNew(tokens) ==
    NextToken(NextToken([lexer |-> tokens, curr_token |-> NoToken, peek_token |-> NoToken]))

\* parser.rs:48-54
CurrTokenIs(p, kind) == p.curr_token.tok = kind
PeekTokenIs(p, kind) == p.peek_token.tok = kind

\* parser.rs:56-63; `==` of Token is the derived, structural one
\* (core/src/token.rs:57), so a token with a payload equals only a token with
\* the same payload
ExpectPeek(p, other) ==
    IF p.peek_token = other THEN [ok |-> TRUE, p |-> NextToken(p)]
    ELSE [ok |-> FALSE, p |-> p]

\* parser.rs:21 and 29: the field is created empty, and no line of the
\* parser pushes to it
errors == <<>>

Parsed(p, x) == [p |-> p, x |-> x]

RECURSIVE ParseExpression(_, _)

\* parser/prefix.rs: the prefix rule of the current token, None (<<>>) when
\* the token has none
PrefixFn(p) ==
    CASE p.curr_token.tok = "Int" ->
            Parsed(p, <<IntegerLiteral(ParseInteger(p.curr_token.digits, 0))>>)
      [] p.curr_token.tok = "Ident" -> Parsed(p, <<Identifier(p.curr_token.name)>>)
      [] p.curr_token.tok \in {"Bang", "Minus"} ->
            LET right == ParseExpression(NextToken(p), Precedence.Prefix)
            IN  IF right.x = <<>> THEN right
                ELSE Parsed(right.p, <<PrefixExpression(p.curr_token.tok, right.x[1])>>)
      [] p.curr_token.tok = "LParen" ->
            LET inner == ParseExpression(NextToken(p), Precedence.Lowest)
            IN  IF inner.x = <<>> THEN inner
                ELSE IF PeekTokenIs(inner.p, "RParen") THEN Parsed(NextToken(inner.p), inner.x)
                ELSE Parsed(inner.p, <<>>)
      [] OTHER -> Parsed(p, <<>>)

\* parser.rs:155-162: the precedence is not looked at, the expression is
\* what the prefix rule of the current token builds
ParseExpression(p, precedence) == PrefixFn(p)

\* the placeholder of parser.rs:126-129
PlaceholderValue == Identifier("5")

\* parser.rs:105-108, `while !self.curr_token_is(Semicolon) { next_token }`:
\* the parser at the semicolon, or hang when the loop has reached EOF, where
\* next_token changes nothing any more
RECURSIVE SkipToSemicolon(_)
SkipToSemicolon(p) ==
    IF CurrTokenIs(p, "Semicolon") THEN [p |-> p, hang |-> FALSE]
    ELSE IF NextToken(p) = p THEN [p |-> p, hang |-> TRUE]
    ELSE SkipToSemicolon(NextToken(p))

\* parser.rs:90-121: [p, x, hang], x the Option of the statement
LetStatementOf(p) ==
    LET ident == ExpectPeek(p, IdentToken(""))
    IN  IF ~ident.ok THEN [p |-> ident.p, x |-> <<>>, hang |-> FALSE]
        ELSE
        LET name == Identifier(ident.p.curr_token.name)
            assign == ExpectPeek(ident.p, Token("Assign"))
        IN  IF ~assign.ok THEN [p |-> assign.p, x |-> <<>>, hang |-> FALSE]
            ELSE
            LET skipped == SkipToSemicolon(assign.p)
            IN  [p |-> skipped.p, x |-> <<LetStatement(name, PlaceholderValue)>>,
                 hang |-> skipped.hang]

(***************************************************************************)
(* The token streams given to the parser.                                  *)
(***************************************************************************)
IntegerText(n) == IntToken(<<n>>)

\* op1 and op2 of a chain text: operators of one precedence level
ChainOperators == <<"Plus", "Minus", "Asterisk", "Slash">>
Level(op) == IF op \in {"Plus", "Minus"} THEN Precedence.Sum ELSE Precedence.Product

TokensOf(in) ==
    CASE in.family = "sum_product" ->    \* a + b * c
            <<IntegerText(in.a), Token("Plus"), IntegerText(in.b), Token("Asterisk"),
              IntegerText(in.c)>>
      [] in.family = "group" ->          \* (a + b) * c
            <<Token("LParen"), IntegerText(in.a), Token("Plus"), IntegerText(in.b),
              Token("RParen"), Token("Asterisk"), IntegerText(in.c)>>
      [] in.family = "chain" ->          \* a op1 b op2 c
            <<IntegerText(in.a), Token(ChainOperators[in.op1]), IntegerText(in.b),
              Token(ChainOperators[in.op2]), IntegerText(in.c)>>
      [] in.family = "atoms" ->          \* 1a; !b; -(c);
            <<IntToken(<<1, in.a>>), Token("Semicolon"),
              Token("Bang"), IntegerText(in.b), Token("Semicolon"),
              Token("Minus"), Token("LParen"), IntegerText(in.c), Token("RParen"),
              Token("Semicolon")>>
      [] in.family = "returns" ->        \* return a + b; c
            <<Token("Return"), IntegerText(in.a), Token("Plus"), IntegerText(in.b),
              Token("Semicolon"), IntegerText(in.c)>>
      [] in.family = "let" ->            \* let <name> = a;
            <<Token("Let"), IdentToken(in.name), Token("Assign"), IntegerText(in.a),
              Token("Semicolon")>>
      [] in.family = "let_noident" ->    \* a; let = b; c;
            <<IntegerText(in.a), Token("Semicolon"),
              Token("Let"), Token("Assign"), IntegerText(in.b), Token("Semicolon"),
              IntegerText(in.c), Token("Semicolon")>>
      [] in.family = "let_noassign" ->   \* a; let x b; c;
            <<IntegerText(in.a), Token("Semicolon"),
              Token("Let"), IdentToken("x"), IntegerText(in.b), Token("Semicolon"),
              IntegerText(in.c), Token("Semicolon")>>
      [] in.family = "stray" ->          \* a; ) b; c;
            <<IntegerText(in.a), Token("Semicolon"),
              Token("RParen"), IntegerText(in.b), Token("Semicolon"),
              IntegerText(in.c), Token("Semicolon")>>
      [] in.family = "unclosed" ->       \* a; (b; c;
            <<IntegerText(in.a), Token("Semicolon"),
              Token("LParen"), IntegerText(in.b), Token("Semicolon"),
              IntegerText(in.c), Token("Semicolon")>>
      [] in.family = "return_open" ->    \* return a        (no semicolon)
            <<Token("Return"), IntegerText(in.a)>>
      [] in.family = "let_open" ->       \* let <name> = a  (no semicolon)
            <<Token("Let"), IdentToken(in.name), Token("Assign"), IntegerText(in.a)>>

\* the texts with a statement that cannot be parsed
Unparsable == {"let_noident", "let_noassign", "stray", "unclosed"}

ParserInputs ==
    [family : {"sum_product", "group", "atoms", "returns"} \cup Unparsable,
     a : Lits, b : Lits, c : Lits]
    \cup [family : {"let", "let_open"}, name : {"x", "y"}, a : Lits]
    \cup [family : {"return_open"}, a : Lits]
    \cup {in \in [family : {"chain"}, a : Lits, b : Lits, c : Lits,
                  op1 : DOMAIN ChainOperators, op2 : DOMAIN ChainOperators] :
             Level(ChainOperators[in.op1]) = Level(ChainOperators[in.op2])}

(***************************************************************************)
(* The parser as a state machine: parse_program, one step per statement,   *)
(* and one per token that parse_return_statement skips.                    *)
(***************************************************************************)
parser == [lexer |-> lexer, curr_token |-> curr_token, peek_token |-> peek_token]

SetParser(p) ==
    /\ lexer' = p.lexer
    /\ curr_token' = p.curr_token
    /\ peek_token' = p.peek_token

\* Parser::new(lexer), parser.rs:25-37, and Program::new() of parse_program
ParserInit ==
    /\ input \in ParserInputs
    /\ overflow_checks \in BOOLEAN
    /\ program = <<>>
    /\ lexer = ParserNew(TokensOf(input)).lexer
    /\ curr_token = ParserNew(TokensOf(input)).curr_token
    /\ peek_token = ParserNew(TokensOf(input)).peek_token
    /\ ppc = "stmt"
    /\ env = EnvDefault
    /\ statements = <<>>
    /\ result = Null
    /\ outcome = Running
    /\ log = <<>>
    /\ pc = "idle"
    /\ lexing = LexerIdle

\* parser.rs:142-153 for the statement at the current token, then line 73
ParseExpressionStatement ==
    /\ ppc = "stmt"
    /\ curr_token.tok \notin {"EOF", "Let", "Return"}
    /\ LET expression == ParseExpression(parser, Precedence.Lowest)
           after == IF PeekTokenIs(expression.p, "Semicolon")
                    THEN NextToken(expression.p) ELSE expression.p
       IN  IF expression.x = <<>>
           THEN \* parser.rs:145, unwrap() of None
                /\ ppc' = "panic"
                /\ SetParser(expression.p)
                /\ UNCHANGED program
           ELSE /\ program' = Append(program, ExpressionStatement(expression.x[1]))
                /\ SetParser(NextToken(after))
                /\ UNCHANGED ppc
    /\ UNCHANGED <<overflow_checks, input>>
    /\ UNCHANGED evalVars
    /\ UNCHANGED lexing

\* parser.rs:90-121 for a statement that starts with let, then lines 69-73
\* of parse_program: the statement is added when there is one, and the
\* parser moves on one token
ParseLetStatement ==
    /\ ppc = "stmt"
    /\ curr_token.tok = "Let"
    /\ LET stmt == LetStatementOf(parser)
       IN  IF stmt.hang
           THEN /\ ppc' = "hang"
                /\ SetParser(stmt.p)
                /\ UNCHANGED program
           ELSE /\ program' = program \o stmt.x
                /\ SetParser(NextToken(stmt.p))
                /\ UNCHANGED ppc
    /\ UNCHANGED <<overflow_checks, input>>
    /\ UNCHANGED evalVars
    /\ UNCHANGED lexing

\* parser.rs:123-132: parse_return_statement up to its loop
ParseReturnStatement ==
    /\ ppc = "stmt"
    /\ curr_token.tok = "Return"
    /\ SetParser(NextToken(parser))
    /\ ppc' = "return"
    /\ UNCHANGED <<overflow_checks, input, program>>
    /\ UNCHANGED evalVars
    /\ UNCHANGED lexing

\* parser.rs:135-137, one iteration of the loop
ReturnSkipToken ==
    /\ ppc = "return"
    /\ ~CurrTokenIs(parser, "Semicolon")
    /\ SetParser(NextToken(parser))
    /\ UNCHANGED <<overflow_checks, input, program, ppc>>
    /\ UNCHANGED evalVars
    /\ UNCHANGED lexing

\* parser.rs:139, then lines 70 and 73 of parse_program
ReturnStatementParsed ==
    /\ ppc = "return"
    /\ CurrTokenIs(parser, "Semicolon")
    /\ program' = Append(program, ReturnStatement(PlaceholderValue))
    /\ SetParser(NextToken(parser))
    /\ ppc' = "stmt"
    /\ UNCHANGED <<overflow_checks, input>>
    /\ UNCHANGED evalVars
    /\ UNCHANGED lexing

\* parser.rs:68 and 76: the loop ends at EOF
ParseProgramDone ==
    /\ ppc = "stmt"
    /\ CurrTokenIs(parser, "EOF")
    /\ ppc' = "done"
    /\ UNCHANGED <<overflow_checks, input, program, lexer, curr_token, peek_token>>
    /\ UNCHANGED evalVars
    /\ UNCHANGED lexing

ParserNext ==
    \/ ParseExpressionStatement
    \/ ParseLetStatement
    \/ ParseReturnStatement
    \/ ReturnSkipToken
    \/ ReturnStatementParsed
    \/ ParseProgramDone

ParserSpec == ParserInit /\ [][ParserNext]_vars

(***************************************************************************)
(* Lexer (src/src/lexer.rs), driven by calls of next_token.  The input is  *)
(* a sequence of bytes, each a one-character string, "NUL" the byte 0; an  *)
(* Option is the empty or the one-element sequence.  Positions count from  *)
(* 0 as in the code, so input[i] of the code is text[i + 1].               *)
(***************************************************************************)
Quote == "\""
NUL == "NUL"

\* longest input text
MaxInput == 4

\* how far past the end of the input the model follows read_position
MaxOverrun == 4

Bytes == {Quote, "a", "1", "#", "\n", "=", NUL}

RECURSIVE TextsOfLength(_)
TextsOfLength(n) ==
    IF n = 0 THEN {<<>>}
    ELSE {Append(t, b) : t \in TextsOfLength(n - 1), b \in Bytes}

LexerInputs == [family : {"text"}, text : UNION {TextsOfLength(n) : n \in 0..MaxInput}]

\* lexer.rs:86-96
ReadChar(text, l) ==
    [l EXCEPT !.ch = IF l.read_position >= Len(text) THEN <<>>
                     ELSE <<text[l.read_position + 1]>>,
              !.position = l.read_position,
              !.read_position = l.read_position + 1]

\* lexer.rs:98-104
PeekChar(text, l) ==
    IF l.read_position >= Len(text) THEN <<>> ELSE <<text[l.read_position + 1]>>

\* lexer.rs:11-21
LexerNew(text) ==
    ReadChar(text, [position |-> 0, read_position |-> 0, ch |-> <<>>, from |-> 0,
                    tok |-> NoToken, pc |-> "idle"])

\* lexer.rs:120-127, the inner loop of skip_comment: up to and over the end
\* of the line, or the end of the input
RECURSIVE SkipLine(_, _)
SkipLine(text, l) ==
    IF l.ch = <<>> \/ l.ch = <<"\n">> THEN ReadChar(text, l)
    ELSE SkipLine(text, ReadChar(text, l))

\* lexer.rs:118-130
RECURSIVE SkipComment(_, _)
SkipComment(text, l) ==
    IF l.ch = <<"#">> THEN SkipComment(text, SkipLine(text, l)) ELSE l

\* lexer.rs:106-116
RECURSIVE SkipWhitespaceAndComments(_, _)
SkipWhitespaceAndComments(text, l) ==
    IF l.ch = <<"#">> THEN SkipWhitespaceAndComments(text, SkipComment(text, l))
    ELSE IF l.ch # <<>> /\ l.ch[1] \in {" ", "\t", "\n", "\r"}
         THEN SkipWhitespaceAndComments(text, ReadChar(text, l))
    ELSE l

\* lexer.rs:156-162 and 176-181, on the bytes of the model
IsLetter(l) == l.ch # <<>> /\ l.ch[1] \in {"a", "_"}
IsDigit(l) == l.ch # <<>> /\ l.ch[1] \in {"0", "1"}

\* the bytes from..to-1 of the input, as the text they spell
RECURSIVE Spelled(_, _, _)
Spelled(text, from, to) ==
    IF from >= to THEN "" ELSE text[from + 1] \o Spelled(text, from + 1, to)

RECURSIVE Digits(_, _, _)
Digits(text, from, to) ==
    IF from >= to THEN <<>>
    ELSE <<IF text[from + 1] = "1" THEN 1 ELSE 0>> \o Digits(text, from + 1, to)

\* lexer.rs:146-154 and 164-174: the lexer after the last letter or digit
RECURSIVE ReadWhile(_, _, _)
ReadWhile(text, l, letters) ==
    IF (IF letters THEN IsLetter(l) ELSE IsDigit(l)) THEN ReadWhile(text, ReadChar(text, l), letters)
    ELSE l

\* core/src/token.rs:133-145, Token::from(&[u8])
KeywordOrIdent(word) ==
    CASE word = "fn" -> Token("Function")
      [] word = "while" -> Token("While")
      [] word = "true" -> Token("True")
      [] word = "false" -> Token("False")
      [] word = "if" -> Token("If")
      [] word = "else" -> Token("Else")
      [] word = "return" -> Token("Return")
      [] OTHER -> IdentToken(word)

StringToken(text) == [tok |-> "String", literal |-> text]
Illegal == [tok |-> "Illegal", literal |-> " "]

\* lexer.rs:30-61, the arms of one byte, and of two with peek_char
FixedToken(text, l) ==
    LET c == l.ch[1]
        followed == PeekChar(text, l) = <<"=">>
    IN  CASE c = "=" -> IF followed THEN Token("Eq") ELSE Token("Assign")
          [] c = "!" -> IF followed THEN Token("NotEq") ELSE Token("Bang")
          [] c = ":" -> IF followed THEN Token("Walrus") ELSE Illegal
          [] c = ";" -> Token("Semicolon")
          [] c = "(" -> Token("LParen")
          [] c = ")" -> Token("RParen")
          [] c = "," -> Token("Comma")
          [] c = "+" -> Token("Plus")
          [] c = "-" -> Token("Minus")
          [] c = "*" -> Token("Asterisk")
          [] c = "/" -> Token("Slash")
          [] c = "%" -> Token("Percent")
          [] c = ">" -> Token("GT")
          [] c = "<" -> Token("LT")
          [] c = "{" -> Token("LBrace")
          [] c = "}" -> Token("RBrace")
          [] OTHER -> Illegal

\* a bug: the end of the input is told by the position, so EOF is returned
\* only by the call that stands right at the end
TokenAtEndOnce(text, l) ==
    ReadChar(text, [l EXCEPT !.tok = IF l.position = Len(text) THEN EOF ELSE Illegal])

\* lexer.rs:28 and 82-83, next_token with no byte left
TokenAtEnd(text, l) == ReadChar(text, [l EXCEPT !.tok = EOF])

\* lexer.rs:27-83 past skip_whitespace_and_comments, for every byte but the
\* quote: the lexer after the token, the token in tok
TokenAt(text, l) ==
    IF l.ch = <<>> THEN TokenAtEnd(text, l)
    ELSE IF IsLetter(l)
    THEN LET after == ReadWhile(text, l, TRUE)
         IN  [after EXCEPT !.tok = KeywordOrIdent(Spelled(text, l.position, after.position))]
    ELSE IF IsDigit(l)
    THEN LET after == ReadWhile(text, l, FALSE)
         IN  [after EXCEPT !.tok = IntToken(Digits(text, l.position, after.position))]
    ELSE LET two == l.ch[1] \in {"=", "!", ":"} /\ PeekChar(text, l) = <<"=">>
             at == IF two THEN ReadChar(text, l) ELSE l
         IN  ReadChar(text, [at EXCEPT !.tok = FixedToken(text, l)])

(***************************************************************************)
(* The lexer as a state machine: one step per call of next_token, and one  *)
(* per iteration of the loop of read_string.                               *)
(***************************************************************************)
LexerInit ==
    /\ input \in LexerInputs
    /\ overflow_checks = TRUE
    /\ lexing = LexerNew(input.text)
    /\ program = <<>>
    /\ env = EnvDefault
    /\ statements = <<>>
    /\ result = Null
    /\ outcome = Running
    /\ log = <<>>
    /\ pc = "idle"
    /\ lexer = <<>>
    /\ curr_token = NoToken
    /\ peek_token = NoToken
    /\ ppc = "idle"

\* the model follows read_position up to MaxOverrun past the end
Followed == lexing.read_position < Len(input.text) + MaxOverrun

\* lexer.rs:23-84, a call of next_token that does not meet a string
LexerNextToken ==
    /\ lexing.pc = "idle"
    /\ Followed
    /\ LET l == SkipWhitespaceAndComments(input.text, lexing)
       IN  /\ l.ch # <<Quote>>
           /\ lexing' = TokenAt(input.text, l)
    /\ UNCHANGED <<overflow_checks, input, program>>
    /\ UNCHANGED evalVars
    /\ UNCHANGED parserVars

\* lexer.rs:64-65 and 133: next_token at a quote enters read_string
LexerReadString ==
    /\ lexing.pc = "idle"
    /\ Followed
    /\ LET l == SkipWhitespaceAndComments(input.text, lexing)
       IN  /\ l.ch = <<Quote>>
           /\ lexing' = [l EXCEPT !.from = l.position + 1, !.pc = "string"]
    /\ UNCHANGED <<overflow_checks, input, program>>
    /\ UNCHANGED evalVars
    /\ UNCHANGED parserVars

\* lexer.rs:135-141, an iteration of the loop that does not break
ReadStringStep ==
    /\ lexing.pc = "string"
    /\ Followed
    /\ LET l == ReadChar(input.text, lexing)
       IN  /\ l.ch \notin {<<Quote>>, <<NUL>>}
           /\ lexing' = l
    /\ UNCHANGED <<overflow_checks, input, program>>
    /\ UNCHANGED evalVars
    /\ UNCHANGED parserVars

\* lexer.rs:135-143, the iteration that breaks, then lines 66 and 82-83 of
\* next_token
ReadStringEnd ==
    /\ lexing.pc = "string"
    /\ Followed
    /\ LET l == ReadChar(input.text, lexing)
       IN  /\ l.ch \in {<<Quote>>, <<NUL>>}
           /\ lexing' = ReadChar(input.text,
                           [l EXCEPT !.tok = StringToken(Spelled(input.text, l.from, l.position)),
                                     !.pc = "idle"])
    /\ UNCHANGED <<overflow_checks, input, program>>
    /\ UNCHANGED evalVars
    /\ UNCHANGED parserVars

LexerNext ==
    \/ LexerNextToken
    \/ LexerReadString
    \/ ReadStringStep
    \/ ReadStringEnd

LexerSpec == LexerInit /\ [][LexerNext]_vars

(***************************************************************************)
(* What the properties below talk about.                                   *)
(***************************************************************************)
IsInteger(r, n) == r.k = "Ok" /\ r.v.t = "Integer" /\ r.v.int = n
IsNull(r) == r.k = "Ok" /\ r.v.t = "Null"

\* the value each operand expression of Operands stands for
OperandValues ==
    [i \in 1..(MaxLit + 1) |-> Integer(i - 1)]
    \o <<Integer(-2), Boolean(TRUE), Boolean(FALSE), String("a"), String("b"), Null,
         Function(<<>>, <<>>, EnvCapture(EnvDefault)), Builtin("print"),
         Integer(IntMax), Integer(IntMin), Integer(-1)>>

\* the operand pairs the specification defines an infix operator on:
\* arithmetic and comparison on two Integers, + on two Strings, == and != on
\* any two values
SpecDefined(operator, l, r) ==
    \/ l.t = "Integer" /\ r.t = "Integer"
    \/ l.t = "String" /\ r.t = "String" /\ operator = "Plus"
    \/ operator \in {"Eq", "NotEq"}

IsStmtLit(st, n) ==
    st.s = "ExpressionStatement" /\ st.expression.e = "IntegerLiteral" /\ st.expression.value = n

IsUnreached(st) ==
    st.s = "ExpressionStatement" /\ st.expression.e = "StringLiteral"
        /\ st.expression.svalue = "unreached"

Logged(P(_)) == \E i \in DOMAIN log : P(log[i])
IsBlock(st) == st.s = "BlockStatement"
IsReturn(st) == st.s = "ReturnStatement"
BlocksRun == Cardinality({i \in DOMAIN log : IsBlock(log[i])})

(***************************************************************************)
(* C3.  A function value created inside a call keeps the parameter         *)
(* bindings of that call after the call has returned: after                *)
(* f := fn(x) { fn(y) { x + y } }; g := f(a); the call g(b) evaluates to   *)
(* Integer a + b, also when f is called with c between creating g and      *)
(* calling it; and from g's declaration on, x is a in g's environment.     *)
(***************************************************************************)
C3_ClosureKeepsBinding ==
    input.family = "closure" =>
        /\ pc = "returned" => IsInteger(outcome, input.a + input.b)
        /\ EnvHasHere(env, "g") =>
              /\ env.store["g"].t = "Function"
              /\ Len(EnvGet(env.store["g"].env, "x")) = 1
              /\ EnvGet(env.store["g"].env, "x")[1].t = "Integer"
              /\ EnvGet(env.store["g"].env, "x")[1].int = input.a

C3_Witness ==
    /\ input.family = "closure" /\ input.again /\ input.a = 2 /\ input.b = 3 /\ input.c = 1
    /\ EnvHasHere(env, "h")
    /\ pc = "returned"
    /\ IsInteger(outcome, 5)

(***************************************************************************)
(* C4.  "a := v; a := w;" fails on its second statement with               *)
(* VariableRedeclaration(a) and a is still bound to v;                     *)
(* "a := v; a = w; a;" evaluates to Integer w, a rebound to w.             *)
(***************************************************************************)
C4_RedeclareFailsAssignRebinds ==
    /\ input.family = "redeclare" /\ pc = "returned" =>
          /\ IsErr(outcome, "VariableRedeclaration")
          /\ outcome.e.name = "a"
          /\ Len(statements) = 1
          /\ EnvHasHere(env, "a")
          /\ env.store["a"].t = "Integer"
          /\ env.store["a"].int = input.a
    /\ input.family = "reassign" /\ pc = "returned" =>
          /\ IsInteger(outcome, input.b)
          /\ env.store["a"].t = "Integer"
          /\ env.store["a"].int = input.b

C4_Witness ==
    /\ input.family = "redeclare" /\ input.a = 1 /\ input.b = 2
    /\ pc = "returned"
    /\ IsErr(outcome, "VariableRedeclaration")
    /\ env.store["a"].int = 1

(***************************************************************************)
(* C5.  "i := 0; while (i < n) { i = i + 1; } i;" terminates for every n   *)
(* of the model, runs the body exactly n times, leaves the one binding of  *)
(* i at n and evaluates to Integer n.                                      *)
(***************************************************************************)
C5_CountingLoop ==
    input.family = "count" =>
        /\ pc = "returned" =>
              /\ outcome.k # "Running"
              /\ IsInteger(outcome, input.a)
              /\ BlocksRun = input.a
              /\ Len(env.outer) = 0
              /\ env.store["i"].t = "Integer"
              /\ env.store["i"].int = input.a

C5_Witness ==
    /\ input.family = "count" /\ input.a = 3
    /\ pc = "returned"
    /\ IsInteger(outcome, 3)
    /\ BlocksRun = 3

(***************************************************************************)
(* C6.  An infix operator applied to a pair of operand values it is not    *)
(* defined for fails with UnknownInfixOperator carrying the left operand,  *)
(* the operator and the right operand, rendered                            *)
(* "unknown operator: <left> <op> <right>"; it never yields a value.       *)
(***************************************************************************)
C6_UnknownInfixOperator ==
    (input.family = "infix"
        /\ ~SpecDefined(Operators[input.op], OperandValues[input.a], OperandValues[input.b])) =>
        /\ pc = "loop" => statements # <<>>
        /\ pc = "returned" =>
              /\ IsErr(outcome, "UnknownInfixOperator")
              /\ ObjectEq(outcome.e.left, OperandValues[input.a])
              /\ outcome.e.operator = Operators[input.op]
              /\ ObjectEq(outcome.e.right, OperandValues[input.b])
              /\ UnknownInfixOperatorDisplay(outcome.e) =
                    "unknown operator: " \o ObjectDisplay(OperandValues[input.a]) \o " "
                        \o TokenDisplay(Operators[input.op]) \o " "
                        \o ObjectDisplay(OperandValues[input.b])

\* 3 + true, as "5 + true" of mod.rs:340-343
C6_Witness ==
    /\ input.family = "infix"
    /\ Operands[input.a] = Lit(3) /\ Operators[input.op] = "Plus" /\ input.b = MaxLit + 3
    /\ pc = "returned"
    /\ IsErr(outcome, "UnknownInfixOperator")
    /\ UnknownInfixOperatorDisplay(outcome.e) = "unknown operator: 3 + true"

(***************************************************************************)
(* C7.  As claimed: an if expression whose condition is not a Boolean      *)
(* fails with a runtime error and evaluates neither the consequence nor    *)
(* the alternative.                                                        *)
(***************************************************************************)
C7_NonBooleanConditionFails ==
    (input.family = "if" /\ pc = "returned" /\ OperandValues[input.a].t # "Boolean") =>
        /\ outcome.k = "Err"
        /\ ~Logged(IsBlock)

(***************************************************************************)
(* C7, amended.  Only Boolean true selects the consequence; every other    *)
(* condition value, Boolean false or not a Boolean, selects the            *)
(* alternative, or yields Null when there is none, without an error and    *)
(* without evaluating the consequence.                                     *)
(***************************************************************************)
IsOne(st) == IsStmtLit(st, 1)
IsTwo(st) == IsStmtLit(st, 2)

C7_OnlyTrueSelectsConsequence ==
    (input.family = "if" /\ pc = "returned") =>
        IF OperandValues[input.a].t = "Boolean" /\ OperandValues[input.a].bool
        THEN IsInteger(outcome, 1) /\ Logged(IsOne) /\ ~Logged(IsTwo)
        ELSE /\ ~Logged(IsOne)
             /\ IF input.again THEN IsInteger(outcome, 2) /\ Logged(IsTwo)
                ELSE IsNull(outcome) /\ ~Logged(IsBlock)

\* if (1) { 1 } else { 2 } evaluates to 2 (mod.rs:307-310)
C7_Witness ==
    /\ input.family = "if" /\ Operands[input.a] = Lit(1) /\ input.again
    /\ pc = "returned"
    /\ IsInteger(outcome, 2)

(***************************************************************************)
(* C8.  As claimed: a while statement whose condition evaluates, on some   *)
(* iteration, to a value that is not a Boolean fails with a runtime error  *)
(* instead of ending the loop.                                             *)
(***************************************************************************)
C8_NonBooleanConditionFails ==
    (input.family = "while" /\ pc = "returned" /\ OperandValues[input.a].t # "Boolean") =>
        outcome.k = "Err"

(***************************************************************************)
(* C8, amended.  A while statement goes on only while its condition is     *)
(* Boolean true; a condition that evaluates to any other value, Boolean    *)
(* false or not a Boolean, ends the loop without an error, and the value   *)
(* of the while statement is then Null, whatever the body evaluated to.    *)
(* In "c := true; n := 0; while (c) { n = n + 1; c = <last>; 7 }" the body *)
(* runs once unless <last> is true, and then the loop does not end.        *)
(***************************************************************************)
C8_OnlyTrueContinues ==
    (input.family = "while" /\ pc = "returned") =>
        IF OperandValues[input.a].t = "Boolean" /\ OperandValues[input.a].bool
        THEN outcome.k = "Running"
        ELSE /\ IsNull(outcome)
             /\ BlocksRun = 1
             /\ env.store["n"].t = "Integer"
             /\ env.store["n"].int = 1

C8_Witness ==
    /\ input.family = "while" /\ Operands[input.a] = Lit(1)
    /\ pc = "returned"
    /\ IsNull(outcome)
    /\ env.store["c"].t = "Integer"
    /\ Logged(LAMBDA st : IsStmtLit(st, 7))

(***************************************************************************)
(* C9.  A return executed inside a function body, at any nesting depth of  *)
(* blocks, if expressions and while loops, ends the call at once: no       *)
(* statement of the body after it is evaluated, the call evaluates to      *)
(* Ok(returned value), and the caller never sees ReturningValue.           *)
(* The text is "r := fn() { <return v, depth levels deep> }(); r;".        *)
(***************************************************************************)
C9_ReturnEndsCall ==
    input.family = "return" =>
        /\ ~Logged(IsUnreached)
        /\ ~IsErr(outcome, "ReturningValue")
        /\ EnvHasHere(env, "r") => env.store["r"].t = "Integer" /\ env.store["r"].int = input.b
        /\ pc = "returned" => IsInteger(outcome, input.b) /\ Logged(IsReturn)

C9_Witness ==
    /\ input.family = "return" /\ input.a = MaxDepth /\ input.b = 2
    /\ pc = "returned"
    /\ IsInteger(outcome, 2)
    /\ Logged(IsReturn)
    /\ BlocksRun = MaxDepth + 1

(***************************************************************************)
(* C10.  A return executed at the top level of a program, outside every    *)
(* function call, makes evaluation of the program yield the returned       *)
(* value: "if (c) { return v; 9; } else { return w; }" evaluates to        *)
(* Integer v when c is true and to Integer w when it is false.             *)
(***************************************************************************)
C10_TopLevelReturnYieldsValue ==
    (input.family = "topreturn" /\ pc = "returned") =>
        IsInteger(outcome, IF input.again THEN input.a ELSE input.b)

(***************************************************************************)
(* Parsing and then evaluating: Evaluator::new(program, ..).evaluate() as  *)
(* one value, for the properties that run a parsed program.                *)
(***************************************************************************)
\* mod.rs:48-59, the whole loop
RECURSIVE EvaluateStatements(_, _, _)
EvaluateStatements(stmts, last, e) ==
    IF stmts = <<>> THEN Ok(last)
    ELSE
    LET x == EvalStatement(Head(stmts), [env |-> e, log |-> <<>>, fuel |-> MaxSteps])
    IN  IF ~IsOk(x.r) THEN x.r
        ELSE EvaluateStatements(Tail(stmts), x.r.v, x.ev.env)

\* mod.rs:33-46
EvaluateProgram(stmts) == EvaluateStatements(stmts, Null, EnvDefault)

ParserStopped == ppc \in {"done", "panic"}

(***************************************************************************)
(* C1.  Parsing respects operator precedence: "a + b * c" parses to the    *)
(* sum of a and the product of b and c, and "[a + b] * c", with round      *)
(* brackets, to the product of the sum of a and b and c: the parser ends   *)
(* without a panic and the program is that one expression statement.       *)
(***************************************************************************)
C1_PrecedenceParse ==
    /\ (input.family = "sum_product" /\ ParserStopped) =>
          /\ ppc = "done"
          /\ program = <<ExpressionStatement(
                InfixExpression(Lit(input.a), "Plus",
                    InfixExpression(Lit(input.b), "Asterisk", Lit(input.c))))>>
    /\ (input.family = "group" /\ ParserStopped) =>
          /\ ppc = "done"
          /\ program = <<ExpressionStatement(
                InfixExpression(InfixExpression(Lit(input.a), "Plus", Lit(input.b)),
                    "Asterisk", Lit(input.c)))>>

(***************************************************************************)
(* C2.  Infix operators of equal precedence are left-associative:          *)
(* "a op1 b op2 c" with op1 and op2 of one level parses to the infix       *)
(* expression of op2 whose left operand is the infix expression a op1 b,   *)
(* and "1 - 2 - 3" evaluates to Integer -4.                                *)
(***************************************************************************)
C2_LeftAssociative ==
    (input.family = "chain" /\ ParserStopped) =>
        /\ ppc = "done"
        /\ Len(program) = 1
        /\ program[1].s = "ExpressionStatement"
        /\ program[1].expression.e = "InfixExpression"
        /\ program[1].expression.operator = ChainOperators[input.op2]
        /\ program[1].expression.left.e = "InfixExpression"
        /\ program[1].expression.left.operator = ChainOperators[input.op1]
        /\ (ChainOperators[input.op1] = "Minus" /\ ChainOperators[input.op2] = "Minus") =>
              IsInteger(EvaluateProgram(program), (input.a - input.b) - input.c)


(***************************************************************************)
(* C11.  == and != never fail: on two values of the same variant (two      *)
(* Integers, two Booleans, two Nulls, two Strings) == is Boolean(the two   *)
(* are equal) and != its negation; on two values of different variants ==  *)
(* is Boolean false and != Boolean true.                                   *)
(***************************************************************************)
C11_EqualityTotal ==
    (input.family = "infix" /\ Operators[input.op] \in {"Eq", "NotEq"} /\ pc = "returned") =>
        LET l == OperandValues[input.a]
            r == OperandValues[input.b]
            equal == IF l.t # r.t THEN FALSE ELSE l = r
        IN  (l.t # r.t \/ l.t \in {"Integer", "Boolean", "Null", "String"}) =>
                outcome = Ok(Boolean(IF Operators[input.op] = "Eq" THEN equal ELSE ~equal))

(***************************************************************************)
(* C12.  On two Integers l and r each of + - * / % < <= > >= == != is      *)
(* defined (r # 0 for / and %, the result within IntMin .. IntMax): the    *)
(* arithmetic result is the Integer, with                                  *)
(* l = (l / r) * r + l % r, the quotient truncated toward zero and the     *)
(* remainder of the sign of l; a comparison is the Boolean.                *)
(***************************************************************************)
C12_IntegerOperators ==
    (input.family = "infix" /\ pc = "returned"
        /\ OperandValues[input.a].t = "Integer" /\ OperandValues[input.b].t = "Integer") =>
        LET l == OperandValues[input.a].int
            r == OperandValues[input.b].int
            op == Operators[input.op]
        IN  CASE op = "Plus" -> l + r \in IntMin..IntMax => outcome = Ok(Integer(l + r))
              [] op = "Minus" -> l - r \in IntMin..IntMax => outcome = Ok(Integer(l - r))
              [] op = "Asterisk" -> l * r \in IntMin..IntMax => outcome = Ok(Integer(l * r))
              [] op \in {"Slash", "Percent"} ->
                    (r # 0 /\ ~(l = IntMin /\ r = -1)) =>
                        \E q \in -Abs(l)..Abs(l), m \in -Abs(r)..Abs(r) :
                            /\ l = q * r + m
                            /\ Abs(m) < Abs(r)
                            /\ (m # 0 => (m < 0) = (l < 0))
                            /\ outcome = Ok(Integer(IF op = "Slash" THEN q ELSE m))
              [] op = "LT" -> outcome = Ok(Boolean(l < r))
              [] op = "Le" -> outcome = Ok(Boolean(l <= r))
              [] op = "GT" -> outcome = Ok(Boolean(l > r))
              [] op = "Ge" -> outcome = Ok(Boolean(l >= r))
              [] op = "Eq" -> outcome = Ok(Boolean(l = r))
              [] op = "NotEq" -> outcome = Ok(Boolean(l # r))

(***************************************************************************)
(* C13.  An identifier is looked up in the environment first, through the  *)
(* outer environments, and in the builtin registry only when no            *)
(* environment binds it: a bound name evaluates to its bound value (also   *)
(* when the name is a builtin's), an unbound builtin name to               *)
(* Builtin(name), any other name fails with UnknownVariable(name); and     *)
(* the lookup leaves the environment as it was.                            *)
(***************************************************************************)
C13_IdentifierLookup ==
    (input.family = "lookup" /\ pc = "returned") =>
        LET declared == EnvSet(EnvDefault, "a", Integer(input.a))
        IN  CASE input.kind \in {"bound", "outer"} ->
                    outcome = Ok(Integer(input.a)) /\ env = declared
              [] input.kind = "param" -> outcome = Ok(Integer(input.a)) /\ env = EnvDefault
              [] input.kind = "builtin" -> outcome = Ok(Builtin("print")) /\ env = EnvDefault
              [] input.kind = "unknown" ->
                    outcome = Err(UnknownVariable("b")) /\ env = EnvDefault

\* fn(print) { print }(2): the parameter, not the builtin
C13_Witness ==
    /\ input.family = "lookup" /\ input.kind = "param" /\ input.a = 2
    /\ pc = "returned"
    /\ outcome = Ok(Integer(2))
    /\ Logged(LAMBDA st : st.s = "ExpressionStatement" /\ st.expression.e = "Identifier"
                              /\ st.expression.name = "print")

(***************************************************************************)
(* C14.  Every call of a function value runs its body in a scope of its    *)
(* own under the captured environment.  In                                 *)
(* "f := fn(x) { a := v; a + x }; f(w); f(w); <probe>", with or without    *)
(* a := "outer" before it: every call of f evaluates to Integer v + w, no  *)
(* call fails with VariableRedeclaration, the caller's scope never binds   *)
(* x, binds a only to its own "outer", and the function value bound to f   *)
(* keeps no binding of x or a from a call.                                 *)
(***************************************************************************)
C14_CallScopeIsFresh ==
    input.family = "scope" =>
        /\ ~EnvHasHere(env, "x")
        /\ EnvHasHere(env, "a") => input.again /\ env.store["a"] = String("outer")
        /\ EnvHasHere(env, "f") =>
              /\ ~EnvHasHere(env.store["f"].env, "x")
              /\ ~EnvHasHere(env.store["f"].env, "a")
        /\ outcome.k \in {"Running", "Ok", "Err"}
        /\ ~IsErr(outcome, "VariableRedeclaration")
        /\ (pc = "loop" /\ EnvHasHere(env, "f") /\ Len(statements) \in {1, 2}) =>
              result = Integer(input.a + input.b)
        /\ pc = "returned" =>
              CASE input.kind = "call" -> outcome = Ok(Integer(input.a + input.b))
                [] input.kind = "a" ->
                      outcome = IF input.again THEN Ok(String("outer"))
                                ELSE Err(UnknownVariable("a"))
                [] input.kind = "x" -> outcome = Err(UnknownVariable("x"))

\* a := "outer"; f := fn(x) { a := 1; a + x }; f(2); f(2); f(2);
C14_Witness ==
    /\ input.family = "scope" /\ input.again /\ input.kind = "call"
    /\ input.a = 1 /\ input.b = 2
    /\ pc = "returned"
    /\ outcome = Ok(Integer(3))
    /\ Cardinality({i \in DOMAIN log : log[i].s = "Var" /\ log[i].name = "a"
                                            /\ log[i].value.e = "IntegerLiteral"}) = 3

(***************************************************************************)
(* C15.  A statement sequence stops at its first failing statement.  In    *)
(* "4; a := v; true - true; b := w; 5", as a program and as the block of   *)
(* "if (true) { .. } c := w;": the result is the error of true - true,     *)
(* the statements after it are never evaluated and bind nothing, and a,    *)
(* bound before it, stays bound to v.                                      *)
(***************************************************************************)
C15_ErrorAbortsSequence ==
    input.family = "abort" =>
        /\ ~EnvHasHere(env, "b") /\ ~EnvHasHere(env, "c")
        /\ ~Logged(LAMBDA st : IsStmtLit(st, 5))
        /\ ~Logged(LAMBDA st : st.s = "Var" /\ st.name \in {"b", "c"})
        /\ result \in {Null, Integer(4), Integer(input.a)}
        /\ pc # "returned_again" => outcome.k \in {"Running", "Err"}
        /\ pc = "returned" =>
              /\ outcome = Err(UnknownInfixOperator(Boolean(TRUE), "Minus", Boolean(TRUE)))
              /\ env = EnvSet(EnvDefault, "a", Integer(input.a))
              /\ Logged(LAMBDA st : IsStmtLit(st, 4))

\* if (true) { 4; a := 1; true - true; b := 2; 5 } c := 2;
C15_Witness ==
    /\ input.family = "abort" /\ input.again /\ input.a = 1 /\ input.b = 2
    /\ pc = "returned"
    /\ IsErr(outcome, "UnknownInfixOperator")
    /\ UnknownInfixOperatorDisplay(outcome.e) = "unknown operator: true - true"
    /\ EnvHasHere(env, "a")
    /\ Len(statements) = 2

(***************************************************************************)
(* C16.  A statement that cannot be parsed (a token without a prefix       *)
(* rule, a let without an identifier or without =, a missing closing       *)
(* parenthesis) never makes the parser panic: parsing runs to the end of   *)
(* the input, and ends with at least one syntax error recorded.            *)
(***************************************************************************)
C16_SyntaxErrorsRecorded ==
    input.family \in Unparsable =>
        /\ ppc # "panic"
        /\ ppc = "done" => errors # <<>>

(***************************************************************************)
(* C17.  "let <name> = a;" parses, without a panic, to a program of        *)
(* exactly one statement: the Let statement of that name whose value is    *)
(* IntegerLiteral a.                                                       *)
(***************************************************************************)
C17_LetStatementParsed ==
    input.family = "let" =>
        /\ ppc \in {"stmt", "done"}
        /\ ppc = "done" =>
              program = <<LetStatement(Identifier(input.name), IntegerLiteral(input.a))>>

(***************************************************************************)
(* C18.  Once next_token has returned EOF, every later call returns EOF;   *)
(* no other token is returned after it.                                    *)
(***************************************************************************)
C18_EOFRepeats == [][lexing.tok = EOF => lexing'.tok = EOF]_vars

\* EOF was returned at least twice on an input that has tokens
C18_Witness ==
    /\ lexing.pc = "idle"
    /\ lexing.tok = EOF
    /\ Len(input.text) = MaxInput
    /\ input.text[1] = "a"
    /\ lexing.read_position >= Len(input.text) + 3

(***************************************************************************)
(* C19.  In a string literal that the input ends before closing, the loop  *)
(* of read_string stops at the end of the input: it never goes on reading  *)
(* after read_char has found the input at its end.                         *)
(***************************************************************************)
C19_UnclosedStringStops ==
    lexing.pc = "string" => lexing.position <= Len(input.text)

(***************************************************************************)
(* Printing and parsing again.  parse_program as one value, and the        *)
(* tokens the lexer makes of the text to_string() prints for a program.    *)
(***************************************************************************)
\* parser.rs:65-88 with the statement functions, the whole loop: how it ends
\* ("done", "panic", "hang") and the program built
RECURSIVE ParseProgramOf(_, _)
ParseProgramOf(p, built) ==
    IF CurrTokenIs(p, "EOF") THEN [k |-> "done", program |-> built]
    ELSE IF CurrTokenIs(p, "Let")
    THEN LET stmt == LetStatementOf(p)
         IN  IF stmt.hang THEN [k |-> "hang", program |-> built]
             ELSE ParseProgramOf(NextToken(stmt.p), built \o stmt.x)
    ELSE IF CurrTokenIs(p, "Return")
    THEN LET skipped == SkipToSemicolon(NextToken(p))
         IN  IF skipped.hang THEN [k |-> "hang", program |-> built]
             ELSE ParseProgramOf(NextToken(skipped.p),
                                 Append(built, ReturnStatement(PlaceholderValue)))
    ELSE LET expression == ParseExpression(p, Precedence.Lowest)
             after == IF PeekTokenIs(expression.p, "Semicolon")
                      THEN NextToken(expression.p) ELSE expression.p
         IN  IF expression.x = <<>> THEN [k |-> "panic", program |-> built]
             ELSE ParseProgramOf(NextToken(after),
                                 Append(built, ExpressionStatement(expression.x[1])))

\* the decimal digits of a value, as i64's to_string writes them
RECURSIVE ToDigits(_)
ToDigits(n) == IF n < 10 THEN <<n>> ELSE ToDigits(n \div 10) \o <<n % 10>>

\* the tokens of the text of an expression: an integer literal prints its
\* digits, an identifier its name (the name 5 of the placeholder reads back
\* as the integer 5), a prefix expression "(" operator operand ")"
RECURSIVE PrintedExpression(_)
PrintedExpression(x) ==
    CASE x.e = "IntegerLiteral" -> <<IntToken(ToDigits(x.value))>>
      [] x.e = "Identifier" -> IF x.name = "5" THEN <<IntToken(<<5>>)>> ELSE <<IdentToken(x.name)>>
      [] x.e = "PrefixExpression" ->
            <<Token("LParen"), Token(x.operator)>> \o PrintedExpression(x.right)
                \o <<Token("RParen")>>

\* ast/statements/let_statement.rs:10-18, "let {} = {};", and the other
\* statements alike
PrintedStatement(st) ==
    CASE st.s = "LetStatement" ->
            <<Token("Let"), IdentToken(st.name.name), Token("Assign")>>
                \o PrintedExpression(st.value) \o <<Token("Semicolon")>>
      [] st.s = "ReturnStatement" ->
            <<Token("Return")>> \o PrintedExpression(st.return_value) \o <<Token("Semicolon")>>
      [] st.s = "ExpressionStatement" ->
            PrintedExpression(st.expression) \o <<Token("Semicolon")>>

RECURSIVE PrintedProgram(_)
PrintedProgram(stmts) ==
    IF stmts = <<>> THEN <<>> ELSE PrintedStatement(Head(stmts)) \o PrintedProgram(Tail(stmts))

\* the texts of the parser's inputs that are valid programs
ValidTexts == {"sum_product", "group", "chain", "atoms", "returns", "let"}

(***************************************************************************)
(* C20.  Every valid program text parses, and printing the parsed program  *)
(* and parsing the print gives a program that evaluates, from a fresh      *)
(* environment, to the same result as the parsed program itself.           *)
(***************************************************************************)
C20_RoundTripPreservesResult ==
    input.family \in ValidTexts =>
        /\ ppc \notin {"panic", "hang"}
        /\ ppc = "done" =>
              LET again == ParseProgramOf(ParserNew(PrintedProgram(program)), <<>>)
              IN  /\ again.k = "done"
                  /\ EvaluateProgram(again.program) = EvaluateProgram(program)


(***************************************************************************)
(* C21.  Unary ! is defined on Boolean only and unary - on Integer only:   *)
(* a chain of k prefix operators on such an operand yields the operand for *)
(* even k and its negation (not b, -n) for odd k; on any other operand it  *)
(* fails with PrefixOperator naming the operator and the operand.          *)
(***************************************************************************)
C21_PrefixOperators ==
    (input.family = "prefix" /\ pc = "returned") =>
        LET v == OperandValues[input.a]
            even == input.k % 2 = 0
        IN  CASE input.operator = "Bang" /\ v.t = "Boolean" ->
                    outcome = Ok(Boolean(IF even THEN v.bool ELSE ~v.bool))
              [] input.operator = "Minus" /\ v.t = "Integer" ->
                    outcome = Ok(Integer(IF even THEN v.int ELSE -v.int))
              [] OTHER ->
                    outcome = Err(PrefixOperator(input.operator, v))

(***************************************************************************)
(* C22.  evaluate() consumes the program exactly once: once it has         *)
(* returned, with a value or with an error, the evaluator holds no         *)
(* statement of the program; a second evaluate() on it evaluates nothing   *)
(* (no statement is entered), leaves the environment as the first call     *)
(* left it, and returns Null.                                              *)
(***************************************************************************)
C22_ProgramConsumedOnce ==
    /\ [](pc \in {"returned", "again", "returned_again"} => program = <<>>)
    /\ [][(pc \in {"returned", "again"}) => (env' = env /\ log' = log)]_vars
    /\ [](pc = "returned_again" => outcome = Ok(Null))

\* a program of several statements failed in the first evaluate(), and the
\* second has returned
C22_Witness ==
    /\ pc = "returned_again"
    /\ input.family = "abort" /\ ~input.again
    /\ Len(log) = 3 /\ Len(statements) = 0
    /\ EnvHasHere(env, "a")

(***************************************************************************)
(* C23.  parse_program terminates on every token stream that ends with a   *)
(* repeated EOF: no loop of the parser that advances the token cursor goes *)
(* on when the current token is EOF.  The loop of parse_program stops      *)
(* there (ParseProgramDone); the skipping loops of parse_let_statement and *)
(* parse_return_statement must not be at their head with EOF, where        *)
(* next_token leaves the parser as it is.                                  *)
(***************************************************************************)
C23_LoopsStopAtEOF ==
    /\ ppc # "hang"
    /\ (ppc = "return" /\ CurrTokenIs(parser, "EOF")) => NextToken(parser) # parser

(***************************************************************************)
(* C24.  No environment ever binds a name of the builtin registry: the     *)
(* evaluator's environment holds no builtin name, a declaration or an      *)
(* assignment of one fails with OverwriteBuiltin, and wherever an          *)
(* identifier that names a builtin is evaluated, also in the body of a     *)
(* function with a parameter of that name, it yields Builtin(name).        *)
(***************************************************************************)
C24_BuiltinsNeverBound ==
    /\ \A name \in BuiltinNames : EnvGet(env, name) = <<>>
    /\ (input.family = "shadow" /\ pc = "returned") =>
          IF input.kind \in {"declare", "assign", "in_call"}
          THEN outcome = Err(OverwriteBuiltin("print"))
          ELSE outcome = Ok(Builtin("print"))

(***************************************************************************)
(* C25.  Integer arithmetic never aborts the evaluator: for every pair of  *)
(* Integers and each operator of the Integer arm, and for unary - on every *)
(* Integer, the evaluation returns a value or an EvaluatorError; this      *)
(* includes a zero right operand of / and %, IntMin / -1, and results      *)
(* outside IntMin .. IntMax.                                               *)
(***************************************************************************)
C25_ArithmeticNeverAborts ==
    (/\ pc = "returned"
     /\ \/ /\ input.family = "infix"
           /\ OperandValues[input.a].t = "Integer"
           /\ OperandValues[input.b].t = "Integer"
        \/ /\ input.family = "prefix"
           /\ input.operator = "Minus"
           /\ OperandValues[input.a].t = "Integer") =>
        outcome.k \in {"Ok", "Err"}

=============================================================================
